---- MODULE Spec2Model ----
(***************************************************************************)
(* dbus-signal.c: a process connects to the session bus, requests the name *)
(* org.DBusTest.SignalTest, connects onNameLost to the daemon's NameLost   *)
(* signal, arms a 1000 ms timeout that runs releaseName, and runs a GLib   *)
(* main loop until onNameLost quits it.                                    *)
(*                                                                         *)
(* The process is modelled statement by statement (main), callback by      *)
(* callback (onNameLost, releaseName).  Its collaborators are modelled by  *)
(* their documented contracts: the bus daemon keeps one owner queue for    *)
(* the name, another client may request or release the same name, and a    *)
(* GLib main-context iteration dispatches every source that was ready when *)
(* the iteration was prepared, in the order the sources were attached,     *)
(* even if one of them calls g_main_loop_quit.                             *)
(***************************************************************************)
EXTENDS Integers, Sequences, FiniteSets, TLC

\* ------------------------------------------------------------------ bounds
\* Granularity of the clock, in ms.
TickStep == 500
\* The clock stops once this many ms have passed since the timer was armed.
MaxElapsed == 2000
\* How many requests/releases the other bus client makes in one run.
MaxOtherOps == 3

\* --------------------------------------------------------- program constants
\* g_timeout_add(1000, releaseName, ...)
TimerDelay == 1000
\* The failure sentinel of dbus_bus_request_name / dbus_bus_release_name.
FailureSentinel == -1
DBUS_REQUEST_NAME_REPLY_PRIMARY_OWNER == 1
DBUS_REQUEST_NAME_REPLY_IN_QUEUE == 2
DBUS_REQUEST_NAME_REPLY_EXISTS == 3
DBUS_REQUEST_NAME_REPLY_ALREADY_OWNER == 4
DBUS_RELEASE_NAME_REPLY_RELEASED == 1
DBUS_RELEASE_NAME_REPLY_NON_EXISTENT == 2
DBUS_RELEASE_NAME_REPLY_NOT_OWNER == 3

\* Every value retval can take in main: the sentinel, the four named replies
\* and an unknown code on either side of them.
RequestCodes == FailureSentinel .. (DBUS_REQUEST_NAME_REPLY_ALREADY_OWNER + 1)
\* Every value retval can take in releaseName.
ReleaseCodes == FailureSentinel .. (DBUS_RELEASE_NAME_REPLY_NOT_OWNER + 1)

\* The two bus clients that compete for org.DBusTest.SignalTest.
Self == "self"
Other == "other"

VARIABLES
    pc,          \* position of main()
    mainloop,    \* GMainLoop *mainloop: "null" or "created"
    is_running,  \* the loop's running flag, cleared by g_main_loop_quit
    con,         \* DBusConnection *con: "null" or "open"
    proxy,       \* DBusGProxy *proxy: "none", "live", "unreffed"
    connected,   \* onNameLost is connected to the proxy's NameLost signal
    timer,       \* the timeout source: "none", "armed", "destroyed"
    elapsed,     \* ms since the timeout source was (re)armed
    pending,     \* sources still to dispatch in the current loop iteration
    inbox,       \* messages read into con's incoming queue, not yet dispatched
    wire,        \* messages the daemon sent to this process, not yet read
    queue,       \* the daemon's owner queue of the name; its head is the owner
    otherOps,    \* number of operations the other client has made
    log,         \* the diagnostic lines printed so far, in order
    request,     \* history: the retval of each dbus_bus_request_name call
    releases,    \* history: one record per dbus_bus_release_name call
    sent         \* history: every signal the daemon has sent this process,
                 \* with the value of elapsed when it was sent

vars == <<pc, mainloop, is_running, con, proxy, connected, timer, elapsed,
          pending, inbox, wire, queue, otherOps, log, request, releases,
          sent>>

\* ------------------------------------------------------------------ helpers
Min(a, b) == IF a < b THEN a ELSE b

InQueue(c, q) == \E i \in 1..Len(q) : q[i] = c

IsOwner(c, q) == q # <<>> /\ Head(q) = c

Remove(c, q) == SelectSeq(q, LAMBDA x : x # c)

Count(line, s) == Cardinality({i \in 1..Len(s) : s[i] = line})


\* --------------------------------------------------------------- the daemon
\* What dbus_bus_request_name(con, name, ALLOW_REPLACEMENT) can come back
\* with, and what the daemon has then done.  No REPLACE_EXISTING and no
\* DO_NOT_QUEUE: a free name is taken (NameAcquired is sent), a taken name is
\* queued for.  EXISTS, ALREADY_OWNER and the unknown codes are replies only
\* a bus that is not the reference daemon gives; they change nothing, like
\* the failure sentinel.
RequestOutcomes(q) ==
    (IF q = <<>>
     THEN {[code |-> DBUS_REQUEST_NAME_REPLY_PRIMARY_OWNER, queue |-> <<Self>>,
            signals |-> <<"NameAcquired">>]}
     ELSE {})
    \cup
    (IF q # <<>>
     THEN {[code |-> DBUS_REQUEST_NAME_REPLY_IN_QUEUE, queue |-> Append(q, Self),
            signals |-> <<>>],
           [code |-> DBUS_REQUEST_NAME_REPLY_EXISTS, queue |-> q,
            signals |-> <<>>]}
     ELSE {})
    \cup
    {[code |-> c, queue |-> q, signals |-> <<>>] :
        c \in RequestCodes \ {DBUS_REQUEST_NAME_REPLY_PRIMARY_OWNER,
                              DBUS_REQUEST_NAME_REPLY_IN_QUEUE,
                              DBUS_REQUEST_NAME_REPLY_EXISTS}}

\* What dbus_bus_release_name(con, name, error) can come back with.  The owner
\* gives the name up and is sent NameLost; a queued claim is dropped silently;
\* a client with no claim gets NOT_OWNER, or NON_EXISTENT when nobody owns the
\* name.  detail: whether the failure comes with an error description.
ReleaseOutcomes(q) ==
    (IF InQueue(Self, q)
     THEN {[code |-> DBUS_RELEASE_NAME_REPLY_RELEASED,
            queue |-> Remove(Self, q),
            signals |-> IF IsOwner(Self, q) THEN <<"NameLost">> ELSE <<>>,
            detail |-> FALSE]}
     ELSE IF q # <<>>
     THEN {[code |-> DBUS_RELEASE_NAME_REPLY_NOT_OWNER, queue |-> q,
            signals |-> <<>>, detail |-> FALSE]}
     ELSE {[code |-> DBUS_RELEASE_NAME_REPLY_NON_EXISTENT, queue |-> q,
            signals |-> <<>>, detail |-> FALSE]})
    \cup
    {[code |-> FailureSentinel, queue |-> q, signals |-> <<>>, detail |-> d] :
        d \in BOOLEAN}
    \cup
    {[code |-> c, queue |-> q, signals |-> <<>>, detail |-> FALSE] :
        c \in ReleaseCodes \ {DBUS_RELEASE_NAME_REPLY_RELEASED,
                              DBUS_RELEASE_NAME_REPLY_NOT_OWNER,
                              DBUS_RELEASE_NAME_REPLY_NON_EXISTENT,
                              FailureSentinel}}

\* A blocking call reads everything the daemon sent before the reply into the
\* incoming queue.  A signal the call itself causes is sent either before the
\* reply (early: it is read too) or after it (it stays on the wire).
AfterBlockingCall(signals, early) ==
    /\ inbox' = inbox \o wire \o (IF early THEN signals ELSE <<>>)
    /\ wire' = (IF early THEN <<>> ELSE signals)
    /\ sent' = sent \o [i \in 1..Len(signals) |->
                          [signal |-> signals[i], at |-> elapsed]]

\* ------------------------------------------------------------------- main()
\* The lines main prints for each retval of dbus_bus_request_name.
RequestLog(retval) ==
    CASE retval = FailureSentinel -> <<"couldnt_acquire", "may_not_terminate">>
      [] retval = DBUS_REQUEST_NAME_REPLY_PRIMARY_OWNER -> <<"we_now_own">>
      [] retval = DBUS_REQUEST_NAME_REPLY_IN_QUEUE -> <<"in_queue">>
      [] retval = DBUS_REQUEST_NAME_REPLY_EXISTS -> <<"already_exists">>
      [] retval = DBUS_REQUEST_NAME_REPLY_ALREADY_OWNER -> <<"already_own">>
      [] OTHER -> <<"request_unknown">>

\* Mutant of ConnectResult: the failure is reported but exit(1) is missing.
ConnectResult_NoExit(ok) ==
    /\ con' = (IF ok THEN "open" ELSE "null")
    /\ pc' = "request_name"
    /\ log' = (IF ok THEN log ELSE Append(log, "failed_to_connect"))

\* sigcon = dbus_g_bus_get(DBUS_BUS_SESSION, &error); if (!sigcon) exit(1)
ConnectResult(ok) ==
    IF ok
    THEN /\ con' = "open"
         /\ pc' = "request_name"
         /\ log' = log
    ELSE /\ con' = "null"
         /\ pc' = "exit1"
         /\ log' = Append(log, "failed_to_connect")

Connect ==
    /\ pc = "connect"
    /\ \E ok \in BOOLEAN : ConnectResult(ok)
    /\ UNCHANGED <<mainloop, is_running, proxy, connected, timer, elapsed,
                   pending, inbox, wire, queue, otherOps, request, releases,
                   sent>>

\* Mutant of AfterRequestSwitch: a name that already exists is treated as
\* fatal.
AfterRequestSwitch_ExistsIsFatal(retval, crash) ==
    IF retval = DBUS_REQUEST_NAME_REPLY_EXISTS
    THEN /\ pc' = "exit1"
         /\ log' = log \o RequestLog(retval)
    ELSE IF retval = FailureSentinel /\ crash
    THEN /\ pc' = "crashed"
         /\ log' = log
    ELSE /\ pc' = "loop_new"
         /\ log' = log \o RequestLog(retval)

\* Mutant of AfterRequestSwitch: when the name is taken, main asks for it
\* again until it gets it.
AfterRequestSwitch_RetryWhenQueued(retval, crash) ==
    IF retval = DBUS_REQUEST_NAME_REPLY_IN_QUEUE
    THEN /\ pc' = "request_name"
         /\ log' = log \o RequestLog(retval)
    ELSE IF retval = FailureSentinel /\ crash
    THEN /\ pc' = "crashed"
         /\ log' = log
    ELSE /\ pc' = "loop_new"
         /\ log' = log \o RequestLog(retval)

\* Where main goes after the switch on retval.  dbuserror is NULL, so the
\* case -1 branch reads dbuserror->message through a null pointer: the
\* process either dies there or gets past it (crash is the choice).
AfterRequestSwitch(retval, crash) ==
    IF retval = FailureSentinel /\ crash
    THEN /\ pc' = "crashed"
         /\ log' = log
    ELSE /\ pc' = "loop_new"
         /\ log' = log \o RequestLog(retval)

\* retval = dbus_bus_request_name(con, name, ALLOW_REPLACEMENT, dbuserror)
\* and the switch that follows.
RequestName ==
    /\ pc = "request_name"
    /\ \E o \in RequestOutcomes(queue), early \in BOOLEAN, crash \in BOOLEAN :
          /\ queue' = o.queue
          /\ AfterBlockingCall(o.signals, early)
          /\ request' = Append(request, o.code)
          /\ AfterRequestSwitch(o.code, crash)
    /\ UNCHANGED <<mainloop, is_running, con, proxy, connected, timer, elapsed,
                   pending, otherOps, releases>>

\* mainloop = g_main_loop_new(NULL, false)
MainLoopNew ==
    /\ pc = "loop_new"
    /\ mainloop' = "created"
    /\ is_running' = FALSE
    /\ pc' = "proxy_new"
    /\ UNCHANGED <<con, proxy, connected, timer, elapsed, pending, inbox, wire,
                   queue, otherOps, log, request, releases, sent>>

\* proxy = dbus_g_proxy_new_for_name(sigcon, "org.freedesktop.DBus", ...)
ProxyNew ==
    /\ pc = "proxy_new"
    /\ proxy' = "live"
    /\ pc' = "connect_signal"
    /\ UNCHANGED <<mainloop, is_running, con, connected, timer, elapsed,
                   pending, inbox, wire, queue, otherOps, log, request,
                   releases, sent>>

\* Mutant of ConnectSignal: the signal is added to the proxy but the call that
\* connects onNameLost to it is missing.
ConnectSignal_AddOnly ==
    /\ pc = "connect_signal"
    /\ connected' = connected
    /\ pc' = "timeout_add"
    /\ UNCHANGED <<mainloop, is_running, con, proxy, timer, elapsed, pending,
                   inbox, wire, queue, otherOps, log, request, releases,
                   sent>>

\* dbus_g_proxy_add_signal(proxy, "NameLost", ...);
\* dbus_g_proxy_connect_signal(proxy, "NameLost", onNameLost, NULL, NULL)
ConnectSignal ==
    /\ pc = "connect_signal"
    /\ connected' = TRUE
    /\ pc' = "timeout_add"
    /\ UNCHANGED <<mainloop, is_running, con, proxy, timer, elapsed, pending,
                   inbox, wire, queue, otherOps, log, request, releases,
                   sent>>

\* g_timeout_add(1000, releaseName, (gpointer) sigcon)
TimeoutAdd ==
    /\ pc = "timeout_add"
    /\ timer' = "armed"
    /\ elapsed' = 0
    /\ pc' = "loop_run"
    /\ UNCHANGED <<mainloop, is_running, con, proxy, connected, pending, inbox,
                   wire, queue, otherOps, log, request, releases, sent>>

\* g_main_loop_run(mainloop): entry.  The loop runs until is_running is FALSE.
MainLoopRun ==
    /\ pc = "loop_run"
    /\ is_running' = TRUE
    /\ pc' = "running"
    /\ UNCHANGED <<mainloop, con, proxy, connected, timer, elapsed, pending,
                   inbox, wire, queue, otherOps, log, request, releases,
                   sent>>


\* ------------------------------------------------------------ the main loop
\* The sources attached to the default context, in the order they were
\* attached: the connection's message-queue source and its socket watch
\* (dbus_g_bus_get), then the timeout (g_timeout_add).  All have the default
\* priority.
Sources == <<"message_queue", "io_watch", "timeout">>

\* Mutant of TimeoutReady: the timeout is due as soon as it is armed.
TimeoutReady_NoDelay == timer = "armed"

TimeoutReady == timer = "armed" /\ elapsed >= TimerDelay

Ready(s) ==
    CASE s = "message_queue" -> inbox # <<>>
      [] s = "io_watch" -> wire # <<>>
      [] s = "timeout" -> TimeoutReady

\* One iteration of g_main_loop_run's while (is_running) loop: prepare, poll
\* and check collect every ready source; they are then dispatched in order.
MainContextIterate ==
    /\ pc = "running"
    /\ is_running
    /\ pending = <<>>
    /\ \E s \in {"message_queue", "io_watch", "timeout"} : Ready(s)
    /\ pending' = SelectSeq(Sources, Ready)
    /\ UNCHANGED <<pc, mainloop, is_running, con, proxy, connected, timer,
                   elapsed, inbox, wire, queue, otherOps, log, request,
                   releases, sent>>

\* The socket watch reads what is on the wire into the incoming queue.
ReadSocket ==
    /\ pc = "running"
    /\ pending # <<>>
    /\ Head(pending) = "io_watch"
    /\ inbox' = inbox \o wire
    /\ wire' = <<>>
    /\ pending' = Tail(pending)
    /\ UNCHANGED <<pc, mainloop, is_running, con, proxy, connected, timer,
                   elapsed, queue, otherOps, log, request, releases, sent>>

\* Mutant of onNameLostBody: the handler quits the loop only once the name
\* has been released by releaseName.
onNameLostBody_QuitsAfterRelease ==
    /\ log' = Append(log, "we_lost_our_name")
    /\ is_running' = (is_running /\ releases = <<>>)

\* Mutant of onNameLostBody: the notice is printed but the loop is not quit.
onNameLostBody_NoQuit ==
    /\ log' = Append(log, "we_lost_our_name")
    /\ is_running' = is_running

\* void onNameLost(): g_print("!!! We lost our Name !!!");
\* g_main_loop_quit(mainloop).  It takes no argument and tests nothing.
onNameLostBody ==
    /\ log' = Append(log, "we_lost_our_name")
    /\ is_running' = FALSE

\* The message-queue source dispatches one message; a NameLost signal goes to
\* the handler connected to the proxy.
onNameLost ==
    /\ pc = "running"
    /\ pending # <<>>
    /\ Head(pending) = "message_queue"
    /\ Head(inbox) = "NameLost"
    /\ connected
    /\ onNameLostBody
    /\ inbox' = Tail(inbox)
    /\ pending' = Tail(pending)
    /\ UNCHANGED <<pc, mainloop, con, proxy, connected, timer, elapsed, wire,
                   queue, otherOps, request, releases, sent>>

\* Any other message (NameAcquired), or a NameLost nobody is connected to, is
\* dropped without a callback.
DiscardMessage ==
    /\ pc = "running"
    /\ pending # <<>>
    /\ Head(pending) = "message_queue"
    /\ (Head(inbox) # "NameLost" \/ ~connected)
    /\ inbox' = Tail(inbox)
    /\ pending' = Tail(pending)
    /\ UNCHANGED <<pc, mainloop, is_running, con, proxy, connected, timer,
                   elapsed, wire, queue, otherOps, log, request, releases,
                   sent>>

\* ------------------------------------------------------------ releaseName()
\* The local DBusError *error after dbus_bus_release_name(con, name, error):
\* the pointer is passed by value, so the call cannot change it, whatever
\* detail the failure has.
ErrorAfterCall(errorArg, detail) == errorArg

\* Mutant of ReleaseSwitchLog: the RELEASED case lacks its break and falls
\* through into the NOT_OWNER case.
ReleaseSwitchLog_FallThrough(retval) ==
    CASE retval = DBUS_RELEASE_NAME_REPLY_RELEASED ->
            <<"released_successfully", "not_owned_by_this_app">>
      [] retval = DBUS_RELEASE_NAME_REPLY_NOT_OWNER -> <<"not_owned_by_this_app">>
      [] retval = DBUS_RELEASE_NAME_REPLY_NON_EXISTENT -> <<"does_not_exist">>
      [] OTHER -> <<"release_unknown">>

\* The line the switch on retval prints.
ReleaseSwitchLog(retval) ==
    CASE retval = DBUS_RELEASE_NAME_REPLY_RELEASED -> <<"released_successfully">>
      [] retval = DBUS_RELEASE_NAME_REPLY_NOT_OWNER -> <<"not_owned_by_this_app">>
      [] retval = DBUS_RELEASE_NAME_REPLY_NON_EXISTENT -> <<"does_not_exist">>
      [] OTHER -> <<"release_unknown">>

\* The lines the if (retval == -1) block prints.
ReleaseErrorLog(retval, error) ==
    IF retval = FailureSentinel
    THEN IF error = "NULL"
         THEN <<"something_fishy">>
         ELSE <<"could_not_release", "may_not_terminate">>
    ELSE <<>>

\* Mutant of releaseNameReturn: the failure path asks to be called again.
releaseNameReturn_RetryOnFailure(retval) == retval = FailureSentinel

\* The gboolean releaseName returns: TRUE would keep the timeout armed.
releaseNameReturn(retval) == FALSE

\* Mutant of releaseNameBody: a release that does not report Released quits
\* the loop, so that the program cannot hang.
releaseNameBody_QuitsUnlessReleased(o, early) ==
    /\ queue' = o.queue
    /\ AfterBlockingCall(o.signals, early)
    /\ log' = log \o ReleaseSwitchLog(o.code)
                  \o ReleaseErrorLog(o.code, ErrorAfterCall("NULL", o.detail))
    /\ releases' = Append(releases,
                     [code |-> o.code, detail |-> o.detail,
                      owner |-> IsOwner(Self, queue), at |-> elapsed,
                      running |-> is_running,
                      lost |-> Count("we_lost_our_name", log)])
    /\ timer' = "destroyed"
    /\ elapsed' = elapsed
    /\ is_running' = (is_running /\ o.code = DBUS_RELEASE_NAME_REPLY_RELEASED)

\* Mutant of releaseNameBody: the callback quits the loop itself once it has
\* made the release call.
releaseNameBody_QuitsAfterRelease(o, early) ==
    /\ queue' = o.queue
    /\ AfterBlockingCall(o.signals, early)
    /\ log' = log \o ReleaseSwitchLog(o.code)
                  \o ReleaseErrorLog(o.code, ErrorAfterCall("NULL", o.detail))
    /\ releases' = Append(releases,
                     [code |-> o.code, detail |-> o.detail,
                      owner |-> IsOwner(Self, queue), at |-> elapsed,
                      running |-> is_running,
                      lost |-> Count("we_lost_our_name", log)])
    /\ timer' = "destroyed"
    /\ elapsed' = elapsed
    /\ is_running' = FALSE

\* The body of releaseName for one outcome o of the release call.
releaseNameBody(o, early) ==
    /\ queue' = o.queue
    /\ AfterBlockingCall(o.signals, early)
    /\ log' = log \o ReleaseSwitchLog(o.code)
                  \o ReleaseErrorLog(o.code, ErrorAfterCall("NULL", o.detail))
    /\ releases' = Append(releases,
                     [code |-> o.code, detail |-> o.detail,
                      owner |-> IsOwner(Self, queue), at |-> elapsed,
                      running |-> is_running,
                      lost |-> Count("we_lost_our_name", log)])
    /\ timer' = (IF releaseNameReturn(o.code) THEN "armed" ELSE "destroyed")
    /\ elapsed' = (IF releaseNameReturn(o.code) THEN 0 ELSE elapsed)
    /\ is_running' = is_running

\* Mutant of releaseName: the callback is run by a timer of its own as soon
\* as the delay has passed, not by the loop's dispatch.
releaseName_OwnTimer ==
    /\ TimeoutReady
    /\ \E o \in ReleaseOutcomes(queue), early \in BOOLEAN :
          releaseNameBody(o, early)
    /\ pending' = SelectSeq(pending, LAMBDA x : x # "timeout")
    /\ UNCHANGED <<pc, mainloop, con, proxy, connected, otherOps, request>>

\* The timeout source dispatches releaseName.
releaseName ==
    /\ pc = "running"
    /\ pending # <<>>
    /\ Head(pending) = "timeout"
    /\ \E o \in ReleaseOutcomes(queue), early \in BOOLEAN :
          releaseNameBody(o, early)
    /\ pending' = Tail(pending)
    /\ UNCHANGED <<pc, mainloop, con, proxy, connected, otherOps, request>>

\* ------------------------------------------------------- main(), after run
\* g_main_loop_run returns once an iteration ends with is_running cleared.
MainLoopReturn ==
    /\ pc = "running"
    /\ pending = <<>>
    /\ ~is_running
    /\ pc' = "cleanup"
    /\ UNCHANGED <<mainloop, is_running, con, proxy, connected, timer, elapsed,
                   pending, inbox, wire, queue, otherOps, log, request,
                   releases, sent>>

\* Mutant of Cleanup: the cleanup code also closes the bus connection.
Cleanup_ClosesConnection ==
    /\ pc = "cleanup"
    /\ proxy' = "unreffed"
    /\ connected' = FALSE
    /\ con' = "null"
    /\ pc' = "exit0"
    /\ queue' = Remove(Self, queue)
    /\ UNCHANGED <<mainloop, is_running, timer, elapsed, pending, inbox,
                   wire, otherOps, log, request, releases, sent>>

\* g_object_unref(proxy); return 0.  The process ends, so the daemon drops
\* whatever claim it still has on the name.
Cleanup ==
    /\ pc = "cleanup"
    /\ proxy' = "unreffed"
    /\ connected' = FALSE
    /\ pc' = "exit0"
    /\ queue' = Remove(Self, queue)
    /\ UNCHANGED <<mainloop, is_running, con, timer, elapsed, pending, inbox,
                   wire, otherOps, log, request, releases, sent>>

\* ------------------------------------------------------------- environment
Alive == pc \notin {"exit0", "exit1", "crashed"}

\* Time passes; the model counts it from the moment the timeout is armed.
Tick ==
    /\ Alive
    /\ timer # "none"
    /\ elapsed < MaxElapsed
    /\ elapsed' = Min(elapsed + TickStep, MaxElapsed)
    /\ UNCHANGED <<pc, mainloop, is_running, con, proxy, connected, timer,
                   pending, inbox, wire, queue, otherOps, log, request,
                   releases, sent>>

\* Another client requests the name.  With replace it takes the name from
\* this process, which allowed replacement: the daemon sends this process
\* NameLost and, as it did not ask for DO_NOT_QUEUE, keeps it in the queue
\* right behind the new owner.  Otherwise the other client takes a free name
\* or queues up.
OtherRequestName ==
    /\ Alive
    /\ otherOps < MaxOtherOps
    /\ ~IsOwner(Other, queue)
    /\ otherOps' = otherOps + 1
    /\ \E replace \in BOOLEAN :
          IF replace /\ IsOwner(Self, queue)
          THEN /\ queue' = <<Other, Self>>
               /\ wire' = Append(wire, "NameLost")
               /\ sent' = Append(sent, [signal |-> "NameLost", at |-> elapsed])
          ELSE /\ queue' = (IF InQueue(Other, queue) THEN queue
                            ELSE Append(queue, Other))
               /\ wire' = wire
               /\ sent' = sent
    /\ UNCHANGED <<pc, mainloop, is_running, con, proxy, connected, timer,
                   elapsed, pending, inbox, log, request, releases>>

\* The other client releases the name or its place in the queue; if it was
\* the owner and this process is next, this process becomes the owner and is
\* sent NameAcquired.
OtherReleaseName ==
    /\ Alive
    /\ otherOps < MaxOtherOps
    /\ InQueue(Other, queue)
    /\ otherOps' = otherOps + 1
    /\ queue' = Remove(Other, queue)
    /\ wire' = (IF IsOwner(Other, queue) /\ InQueue(Self, queue)
                THEN Append(wire, "NameAcquired") ELSE wire)
    /\ sent' = (IF IsOwner(Other, queue) /\ InQueue(Self, queue)
                THEN Append(sent, [signal |-> "NameAcquired", at |-> elapsed])
                ELSE sent)
    /\ UNCHANGED <<pc, mainloop, is_running, con, proxy, connected, timer,
                   elapsed, pending, inbox, log, request, releases>>

\* ----------------------------------------------------------- specification
Init ==
    /\ pc = "connect"
    /\ mainloop = "null"
    /\ is_running = FALSE
    /\ con = "null"
    /\ proxy = "none"
    /\ connected = FALSE
    /\ timer = "none"
    /\ elapsed = 0
    /\ pending = <<>>
    /\ inbox = <<>>
    /\ wire = <<>>
    /\ queue \in {<<>>, <<Other>>}
    /\ otherOps = 0
    /\ log = <<>>
    /\ request = <<>>
    /\ releases = <<>>
    /\ sent = <<>>

Next ==
    \/ Connect
    \/ RequestName
    \/ MainLoopNew
    \/ ProxyNew
    \/ ConnectSignal
    \/ TimeoutAdd
    \/ MainLoopRun
    \/ MainContextIterate
    \/ ReadSocket
    \/ onNameLost
    \/ DiscardMessage
    \/ releaseName
    \/ MainLoopReturn
    \/ Cleanup
    \/ Tick
    \/ OtherRequestName
    \/ OtherReleaseName

Spec == Init /\ [][Next]_vars

\* The process's own steps are taken when they can be (main runs on, the loop
\* iterates and dispatches) and time passes.  The other client is not
\* obliged to do anything.
FairSpec ==
    /\ Spec
    /\ WF_vars(Connect) /\ WF_vars(RequestName) /\ WF_vars(MainLoopNew)
    /\ WF_vars(ProxyNew) /\ WF_vars(ConnectSignal) /\ WF_vars(TimeoutAdd)
    /\ WF_vars(MainLoopRun) /\ WF_vars(MainContextIterate)
    /\ WF_vars(ReadSocket) /\ WF_vars(onNameLost) /\ WF_vars(DiscardMessage)
    /\ WF_vars(releaseName) /\ WF_vars(MainLoopReturn) /\ WF_vars(Cleanup)
    /\ WF_vars(Tick)

TypeOK ==
    /\ pc \in {"connect", "request_name", "loop_new", "proxy_new",
               "connect_signal", "timeout_add", "loop_run", "running",
               "cleanup", "exit0", "exit1", "crashed"}
    /\ mainloop \in {"null", "created"}
    /\ is_running \in BOOLEAN
    /\ con \in {"null", "open"}
    /\ proxy \in {"none", "live", "unreffed"}
    /\ connected \in BOOLEAN
    /\ timer \in {"none", "armed", "destroyed"}
    /\ elapsed \in 0..MaxElapsed
    /\ otherOps \in 0..MaxOtherOps
    /\ \A i \in 1..Len(inbox) : inbox[i] \in {"NameLost", "NameAcquired"}
    /\ \A i \in 1..Len(wire) : wire[i] \in {"NameLost", "NameAcquired"}
    /\ \A i \in 1..Len(sent) :
          /\ sent[i].signal \in {"NameLost", "NameAcquired"}
          /\ sent[i].at \in 0..MaxElapsed
    /\ \A i \in 1..Len(request) : request[i] \in RequestCodes
    /\ \A i \in 1..Len(releases) : releases[i].code \in ReleaseCodes


\* =================================================================== claims
\* Number of times onNameLost has been dispatched.
LostCount == Count("we_lost_our_name", log)

\* The retval main got from dbus_bus_request_name, once it has one.
Requested(codes) == request # <<>> /\ request[1] \in codes

\* onNameLost dispatches since release call number i.
LostAfter(i) == LostCount - releases[i].lost

LoopHasReturned == pc \in {"cleanup", "exit0"}

\* ----------------------------------------------------------------------- C1
\* A release call that reports Released while this process is the primary
\* owner.
OwnedRelease(r) == r.owner /\ r.code = DBUS_RELEASE_NAME_REPLY_RELEASED

\* ... and that is made while the loop has not yet been asked to stop.
CleanOwnedRelease(r) == OwnedRelease(r) /\ r.running

\* C1 as stated: in a run that has ended with exit status 0, every release
\* that reported Released while this process owned the name was followed by
\* exactly one dispatch of onNameLost.
C1_Original ==
    pc = "exit0" =>
        \A i \in 1..Len(releases) :
            OwnedRelease(releases[i]) => LostAfter(i) = 1

\* C1, amended: when releaseName releases the name as its primary owner, the
\* call reports Released and no NameLost had stopped the loop before the
\* call, then at most one onNameLost is dispatched afterwards and no other
\* callback, the loop has returned only after exactly one, and the process
\* does go on to return 0.
C1_Amended ==
    /\ [](\A i \in 1..Len(releases) :
            CleanOwnedRelease(releases[i]) =>
                /\ Len(releases) = 1
                /\ LostAfter(i) <= 1
                /\ (LostAfter(i) = 1 => ~is_running)
                /\ (LoopHasReturned => LostAfter(i) = 1))
    /\ ((\E i \in 1..Len(releases) : CleanOwnedRelease(releases[i]))
            ~> (pc = "exit0"))

C1_Witness ==
    /\ pc = "exit0"
    /\ Len(releases) = 1
    /\ CleanOwnedRelease(releases[1])
    /\ LostAfter(1) = 1


\* ----------------------------------------------------------------------- C2
AcquiredCodes ==
    {DBUS_REQUEST_NAME_REPLY_PRIMARY_OWNER, DBUS_REQUEST_NAME_REPLY_IN_QUEUE}

C3_OneShot ==
    /\ Len(releases) <= 1
    /\ (Len(releases) = 1 => timer = "destroyed")

\* The loop is still running a full timer period after the release logic ran.
C3_Witness ==
    /\ Len(releases) = 1
    /\ pc = "running"
    /\ is_running
    /\ elapsed >= releases[1].at + TimerDelay

\* ----------------------------------------------------------------------- C4
\* C4: a failed connection ends the process with status 1 at once: no name
\* request was made, no loop or proxy exists, nothing is subscribed, no timer
\* is armed and no release was attempted; and nowhere else does the process
\* run on without a connection.
C4_ConnectFailureIsFatal ==
    /\ (con = "null" /\ pc # "connect" => pc = "exit1")
    /\ (pc = "exit1" =>
            /\ con = "null"
            /\ request = <<>>
            /\ mainloop = "null"
            /\ proxy = "none"
            /\ ~connected
            /\ timer = "none"
            /\ ~is_running
            /\ releases = <<>>
            /\ ~InQueue(Self, queue)
            /\ log = <<"failed_to_connect">>)

C4_Witness == pc = "exit1" /\ otherOps = MaxOtherOps


\* ----------------------------------------------------------------------- C5
\* C5 as stated: once the name request has returned the failure sentinel the
\* program has logged its warning and is on its way into the event loop.
C5_ContinuesAfterFailedRequest ==
    Requested({FailureSentinel}) =>
        /\ pc \in {"loop_new", "proxy_new", "connect_signal", "timeout_add",
                   "loop_run", "running"}
        /\ Count("couldnt_acquire", log) = 1

\* ----------------------------------------------------------------------- C6
\* C6 as stated: after a failed name request the process gets into run() and
\* stays there: it never leaves the loop or ends, no release reports
\* Released and onNameLost is never dispatched.
C6_HangsAfterFailedRequest ==
    Requested({FailureSentinel}) =>
        /\ pc \in {"loop_new", "proxy_new", "connect_signal", "timeout_add",
                   "loop_run", "running"}
        /\ \A i \in 1..Len(releases) :
              releases[i].code # DBUS_RELEASE_NAME_REPLY_RELEASED
        /\ LostCount = 0
        /\ (pc = "running" => is_running)

\* ----------------------------------------------------------------------- C7
ExpectedLog == <<"we_now_own", "released_successfully", "we_lost_our_name">>

IsPrefix(s, t) == Len(s) <= Len(t) /\ \A i \in 1..Len(s) : s[i] = t[i]

ReleasedReported ==
    \E i \in 1..Len(releases) :
        releases[i].code = DBUS_RELEASE_NAME_REPLY_RELEASED

\* C7 as stated: a run with PrimaryOwner on the request and Released on the
\* release that has left the loop has printed exactly the three lines, in
\* order.
C7_Original ==
    (Requested({DBUS_REQUEST_NAME_REPLY_PRIMARY_OWNER}) /\ ReleasedReported
        /\ LoopHasReturned)
    => log = ExpectedLog

\* Released was reported to a release call made before any NameLost had
\* stopped the loop.
ReleasedWhileRunning ==
    \E i \in 1..Len(releases) :
        releases[i].code = DBUS_RELEASE_NAME_REPLY_RELEASED
        /\ releases[i].running

\* C7, amended: with PrimaryOwner on the request and Released on a release
\* made before any NameLost was dispatched, the lines come in the order
\* 'we now own', 'released successfully', 'we lost our name', each once, the
\* loop returns only after all three, and it does return.
C7_Amended ==
    /\ []((Requested({DBUS_REQUEST_NAME_REPLY_PRIMARY_OWNER})
             /\ ReleasedWhileRunning) =>
            /\ IsPrefix(<<"we_now_own", "released_successfully">>, log)
            /\ IsPrefix(log, ExpectedLog)
            /\ (LoopHasReturned \/ ~is_running => log = ExpectedLog))
    /\ ((Requested({DBUS_REQUEST_NAME_REPLY_PRIMARY_OWNER})
             /\ ReleasedWhileRunning)
          ~> (pc = "exit0" /\ log = ExpectedLog))

C7_Witness ==
    /\ Requested({DBUS_REQUEST_NAME_REPLY_PRIMARY_OWNER})
    /\ ReleasedWhileRunning
    /\ pc = "exit0"
    /\ log = ExpectedLog

\* ----------------------------------------------------------------------- C8
\* C8: whenever run() has returned, or the loop has been asked to stop,
\* onNameLost has been dispatched; and the only step that clears the loop's
\* running flag is a dispatch of onNameLost.
C8_OnlyNameLostStopsLoop ==
    /\ [](LoopHasReturned \/ (pc = "running" /\ ~is_running)
            => LostCount >= 1)
    /\ [][is_running /\ ~is_running'
            => LostCount' = LostCount + 1 /\ releases' = releases /\ pc' = pc]_vars

\* The loop has been left although the release logic ran and failed.
C8_Witness ==
    /\ pc = "exit0"
    /\ LostCount >= 1
    /\ Len(releases) = 1
    /\ releases[1].code = FailureSentinel

\* ----------------------------------------------------------------------- C9
\* C9 as stated: when the release call fails with the sentinel and the bus
\* gives an error description, releaseName prints the error message and the
\* 'may not terminate' warning instead of the internal-inconsistency line
\* (stated for the runs in which the request returned PrimaryOwner).
C9_ErrorDetailIsReported ==
    \A i \in 1..Len(releases) :
        (releases[i].code = FailureSentinel /\ releases[i].detail
            /\ Requested({DBUS_REQUEST_NAME_REPLY_PRIMARY_OWNER})) =>
            /\ Count("could_not_release", log) = 1
            /\ Count("something_fishy", log) = 0

\* ---------------------------------------------------------------------- C10
\* The order of main's steps from the request to the running loop.
StartupOrder ==
    <<"request_name", "loop_new", "proxy_new", "connect_signal",
      "timeout_add", "loop_run", "running">>

InformationalRequestCodes == RequestCodes \ {FailureSentinel}

InformationalReleaseCodes == ReleaseCodes \ {FailureSentinel}

\* C10: with any request result but the sentinel, main prints one line and
\* goes through the same steps in the same order up to the running loop; with
\* any release result but the sentinel, releaseName prints one line, leaves
\* the running flag and the subscription alone and does not re-arm the timer.
C10_ResultCodesAreInformational ==
    [][/\ \A k \in 1..6 :
            (pc = StartupOrder[k] /\ pc' # pc
                /\ request' # <<>>
                /\ request'[1] \in InformationalRequestCodes)
            => /\ pc' = StartupOrder[k + 1]
               /\ (k = 1 => Len(log') = Len(log) + 1)
               /\ (k > 1 => log' = log)
               /\ mainloop' = (IF k >= 2 THEN "created" ELSE "null")
               /\ proxy' = (IF k >= 3 THEN "live" ELSE "none")
               /\ connected' = (k >= 4)
               /\ timer' = (IF k >= 5 THEN "armed" ELSE "none")
               /\ is_running' = (k = 6)
               /\ releases' = <<>>
       /\ (Len(releases') = Len(releases) + 1
             /\ releases'[Len(releases')].code \in InformationalReleaseCodes)
          => /\ Len(log') = Len(log) + 1
             /\ is_running' = is_running
             /\ connected' = connected
             /\ timer' = "destroyed"
             /\ pc' = pc]_vars

\* The loop runs after an unknown request code and an unknown release code.
C10_Witness ==
    /\ Requested({DBUS_REQUEST_NAME_REPLY_ALREADY_OWNER + 1})
    /\ Len(releases) = 1
    /\ releases[1].code = DBUS_RELEASE_NAME_REPLY_NOT_OWNER + 1
    /\ pc = "running"
    /\ is_running
    /\ connected
    /\ Len(log) = 2


\* ---------------------------------------------------------------------- C11
NotAcquiredCodes ==
    {DBUS_REQUEST_NAME_REPLY_IN_QUEUE, DBUS_REQUEST_NAME_REPLY_EXISTS}

NamedReleaseCodes ==
    {DBUS_RELEASE_NAME_REPLY_RELEASED, DBUS_RELEASE_NAME_REPLY_NOT_OWNER,
     DBUS_RELEASE_NAME_REPLY_NON_EXISTENT}

\* The daemon has sent this process the given signal at some time.
WasSent(signal) == \E i \in 1..Len(sent) : sent[i].signal = signal

\* The request returned Queued or AlreadyExists, this process has never been
\* made the primary owner, and the release call, if made, came back with one
\* of its three named results.
NeverOwnedRun ==
    /\ Requested(NotAcquiredCodes)
    /\ ~WasSent("NameAcquired")
    /\ \A i \in 1..Len(releases) : releases[i].code \in NamedReleaseCodes

DisplacedBeforeExpiry ==
    \E i \in 1..Len(sent) :
        sent[i].signal = "NameLost" /\ sent[i].at < TimerDelay

\* C12 as stated, for the release call: in a run where the process is
\* displaced before the timer expires, the release call is never invoked.
C12_Original == DisplacedBeforeExpiry => releases = <<>>

InPending(source) == \E i \in 1..Len(pending) : pending[i] = source

\* onNameLost has been dispatched before releaseName, in a loop iteration
\* that does not have the timeout among the sources it dispatches.
LostBeforeTimerDue ==
    LostCount >= 1 /\ releases = <<>> /\ ~InPending("timeout")

\* C12, amended: every dispatch of onNameLost clears the loop's running flag,
\* whether or not releaseName has run; and once it has been dispatched in an
\* iteration in which the timer is not yet due, the timer stays armed and is
\* never dispatched, the release call is never invoked, and the process
\* exits with status 0.
C12_Amended ==
    /\ [][LostCount' = LostCount + 1 => ~is_running']_vars
    /\ [](LostBeforeTimerDue => timer = "armed" /\ ~is_running)
    /\ [][LostBeforeTimerDue => LostBeforeTimerDue']_vars
    /\ (LostBeforeTimerDue ~> (pc = "exit0" /\ LostBeforeTimerDue))

\* The process has left with status 0 after being displaced before the timer
\* expired, with no release call made and the other client owning the name.
C12_Witness ==
    /\ pc = "exit0"
    /\ DisplacedBeforeExpiry
    /\ LostBeforeTimerDue
    /\ timer = "armed"
    /\ IsOwner(Other, queue)


\* ---------------------------------------------------------------------- C13
\* The steps main can take, as pairs of positions.
MainSteps ==
    {<<"connect", "request_name">>, <<"connect", "exit1">>,
     <<"request_name", "loop_new">>, <<"request_name", "crashed">>,
     <<"loop_new", "proxy_new">>, <<"proxy_new", "connect_signal">>,
     <<"connect_signal", "timeout_add">>, <<"timeout_add", "loop_run">>,
     <<"loop_run", "running">>, <<"running", "cleanup">>,
     <<"cleanup", "exit0">>}

\* onNameLost is, or was until the proxy was unreffed, connected to NameLost.
SubscriptionInstalled == connected \/ proxy = "unreffed"

CallbackCount == LostCount + Len(releases)

\* C14: a step runs at most one callback; it does so only inside run(), as
\* the first of the sources the current loop iteration still has to
\* dispatch; and no callback has run before the loop was entered or runs
\* after it has returned.
C14_CallbacksInsideRun ==
    /\ [][CallbackCount' # CallbackCount =>
            /\ CallbackCount' = CallbackCount + 1
            /\ pc = "running" /\ pc' = "running"
            /\ pending # <<>>
            /\ pending' = Tail(pending)
            /\ Head(pending) =
                 (IF LostCount' # LostCount THEN "message_queue"
                  ELSE "timeout")]_vars
    /\ [](pc \in {"connect", "request_name", "loop_new", "proxy_new",
                  "connect_signal", "timeout_add", "loop_run", "exit1",
                  "crashed"}
            => CallbackCount = 0 /\ pending = <<>>)
    /\ [](LoopHasReturned => pending = <<>> /\ ~is_running)
    /\ [][LoopHasReturned => CallbackCount' = CallbackCount]_vars

\* Both callbacks have run, releaseName after the loop was asked to stop, and
\* the loop has returned.
C14_Witness ==
    /\ LoopHasReturned
    /\ LostCount = 1
    /\ Len(releases) = 1
    /\ ~releases[1].running


\* ---------------------------------------------------------------------- C15
\* The state of this process's claim on the name: owned and queued are read
\* off the daemon's queue; a process that is not in the queue has released
\* its claim if the request had put it there, has found the name owned by
\* another if the request said so, and has made no claim otherwise.
ClaimState ==
    IF IsOwner(Self, queue) THEN "owned"
    ELSE IF InQueue(Self, queue) THEN "queued"
    ELSE IF Requested(AcquiredCodes) THEN "released"
    ELSE IF Requested({DBUS_REQUEST_NAME_REPLY_EXISTS}) THEN "owned_by_other"
    ELSE "unclaimed"

\* The transitions the claim lists.
ListedTransitions ==
    {<<"unclaimed", "owned">>, <<"unclaimed", "queued">>,
     <<"unclaimed", "owned_by_other">>,
     <<"owned", "released">>, <<"queued", "released">>}

\* C15 as stated: the claim changes state only by the listed transitions.
C15_Original ==
    [][ClaimState' # ClaimState
          => <<ClaimState, ClaimState'>> \in ListedTransitions]_vars

\* The daemon's own transitions of a replaceable, queueing claim.
DaemonTransitions == {<<"owned", "queued">>, <<"queued", "owned">>}

\* C15, amended: the claim is always in one of the five states and changes
\* only by the listed transitions, made by the single request call and by
\* the release call or the end of the process, and by owned to queued when
\* another client replaces this process and queued to owned when the owner
\* ahead of it releases the name; the process makes at most one request and
\* is never in the queue twice.
C15_Amended ==
    /\ [](/\ ClaimState \in {"unclaimed", "owned", "queued",
                             "owned_by_other", "released"}
          /\ Len(request) <= 1
          /\ Cardinality({i \in 1..Len(queue) : queue[i] = Self}) <= 1
          /\ (request = <<>> => ClaimState = "unclaimed"))
    /\ [][ClaimState' # ClaimState =>
            \/ /\ ClaimState = "unclaimed"
               /\ <<ClaimState, ClaimState'>> \in ListedTransitions
               /\ request = <<>> /\ request' # <<>>
            \/ /\ ClaimState' = "released"
               /\ <<ClaimState, ClaimState'>> \in ListedTransitions
               /\ (Len(releases') = Len(releases) + 1 \/ pc' = "exit0")
            \/ /\ <<ClaimState, ClaimState'>> \in DaemonTransitions
               /\ otherOps' = otherOps + 1
               /\ Len(sent') = Len(sent) + 1]_vars

\* The process has been replaced and sits in the queue behind the new owner.
C15_Witness ==
    /\ ClaimState = "queued"
    /\ Requested({DBUS_REQUEST_NAME_REPLY_PRIMARY_OWNER})
    /\ WasSent("NameLost")
    /\ releases = <<>>


\* ---------------------------------------------------------------------- C16
\* C16: from the moment onNameLost is connected until run() has returned the
\* handler stays connected and the proxy live; the proxy is unreffed once,
\* by the cleanup step after run() has returned, and is then never touched
\* again; no proxy exists, and none is unreffed, when the connection failed;
\* and a connection once open is never closed by the program.
C16_ListenerAndProxyLifetime ==
    /\ [](/\ (pc \in {"timeout_add", "loop_run", "running", "cleanup"}
                => connected /\ proxy = "live")
          /\ (proxy = "unreffed" <=> pc = "exit0")
          /\ (pc = "exit1" => proxy = "none" /\ ~connected)
          /\ (pc \notin {"connect", "exit1"} => con = "open"))
    /\ [][proxy' # proxy =>
            \/ proxy = "none" /\ proxy' = "live" /\ pc = "proxy_new"
            \/ proxy = "live" /\ proxy' = "unreffed" /\ pc = "cleanup"]_vars
    /\ [][connected /\ ~connected' => pc = "cleanup" /\ pc' = "exit0"]_vars
    /\ [][con = "open" => con' = "open"]_vars

\* The process has ended with status 0: the proxy is unreffed, the
\* connection still open.
C16_Witness ==
    /\ pc = "exit0"
    /\ proxy = "unreffed"
    /\ ~connected
    /\ con = "open"
    /\ LostCount >= 1

====
